---- MODULE Spec2Model ----
(***************************************************************************)
(* Floorboards: the pool-based Room of the plank layout planner.           *)
(*                                                                         *)
(* Lengths are integers (one unit = one cm); the arithmetic is exact, so   *)
(* floating-point rounding of the JavaScript numbers is not represented.   *)
(* Handlers run to completion in the browser's single thread; the model    *)
(* walks the column loop of recomputeFloor one iteration at a time and     *)
(* enables the other handlers only when no run is in progress (pc="idle"). *)
(***************************************************************************)
EXTENDS Integers, Sequences, FiniteSets, TLC

VARIABLES
  vertices,           \* Room.vertices
  PLANK_WIDTH, PLANK_LENGTH, CUT_THICKNESS, MIN_PLANK_LENGTH,
  START_LEFT, START_TOP,
  hedges,             \* Room.hedges
  leftmost, rightmost, topmost, bottommost,
  columns,            \* Room.columns
  partials,           \* Room.partials
  planksNeeded, cuts,
  NEXT, UID,          \* Plank.NEXT, Plank.UID
  pc,                 \* "construct", "loop" (inside recomputeFloor), "idle"
  l, first_offset, pickPartial   \* locals of recomputeFloor

params == <<PLANK_WIDTH, PLANK_LENGTH, CUT_THICKNESS, MIN_PLANK_LENGTH,
            START_LEFT, START_TOP>>
geometry == <<vertices, hedges, leftmost, rightmost, topmost, bottommost>>
vars == <<vertices, PLANK_WIDTH, PLANK_LENGTH, CUT_THICKNESS, MIN_PLANK_LENGTH,
          START_LEFT, START_TOP, hedges, leftmost, rightmost, topmost,
          bottommost, columns, partials, planksNeeded, cuts, NEXT, UID, pc,
          l, first_offset, pickPartial>>

----------------------------------------------------------------------------
(* Bounds of the model *)

\* handlers that create planks are enabled while Plank.UID <= MaxUID
MaxUID == 16
\* at most this many user-supplied planks are present at a time
MaxPermanent == 2

(* Stand-ins for Number.MAX_SAFE_INTEGER / Number.MIN_SAFE_INTEGER: far     *)
(* outside every coordinate of the rooms below, small enough for TLC.       *)
MAX_SAFE_INTEGER == 100000
MIN_SAFE_INTEGER == -100000

Min(a, b) == IF a < b THEN a ELSE b
Max(a, b) == IF a > b THEN a ELSE b

----------------------------------------------------------------------------
(* Inputs *)

Vertex(x, y) == [x |-> x, y |-> y]

RectRoom(w, h) == << Vertex(0, 0), Vertex(w, 0), Vertex(w, h), Vertex(0, h) >>

\* an L-shaped room: two columns of height 100, one of height 40
LRoom == << Vertex(0, 0), Vertex(30, 0), Vertex(30, 40), Vertex(20, 40),
            Vertex(20, 100), Vertex(0, 100) >>

Rooms == { RectRoom(30, 100), RectRoom(40, 100), RectRoom(20, 120),
           RectRoom(5, 100), LRoom, <<>> }

CutThicknesses == {0, 1}
MinPlankLengths == {10, 20}
StartLefts == {0, 5, -10}
StartTops == {0, 10}

\* lengths and cut ends offered by the "Add pre-cut plank" dialog
PartialLengths == {30, 50}
CutEnds == {">", "<"}

----------------------------------------------------------------------------
(* class HEdge, class Plank, class Column *)

HEdge(left, right, y) == [left |-> left, right |-> right, y |-> y]

Plank(uid, id, cut_end, left, top, width, length, permanent) ==
  [uid |-> uid, id |-> id, cut_end |-> cut_end, left |-> left, top |-> top,
   width |-> width, length |-> length, permanent |-> permanent]

\* mutant: the width given to the constructor is not kept
M_Column(left, width) ==
  [left |-> left, width |-> 0, top |-> MAX_SAFE_INTEGER,
   bottom |-> MIN_SAFE_INTEGER, planks |-> <<>>]

Column(left, width) ==
  [left |-> left, width |-> width, top |-> MAX_SAFE_INTEGER,
   bottom |-> MIN_SAFE_INTEGER, planks |-> <<>>]

ColRight(col) == col.left + col.width

Height(col) == col.bottom - col.top

PlankBottom(p) == p.top + p.length

\* mutant: an edge that ends at the left side of the column clips it too
M_clip(col, hedge) ==
  IF \/ (hedge.left <= col.left /\ hedge.right >= col.left)
     \/ (hedge.left < ColRight(col) /\ hedge.right >= ColRight(col))
     \/ (hedge.left < col.left /\ hedge.right > ColRight(col))
     \/ (hedge.left > col.left /\ hedge.right < ColRight(col))
  THEN [col EXCEPT !.bottom = Max(hedge.y, col.bottom),
                   !.top = Min(hedge.y, col.top)]
  ELSE col

clip(col, hedge) ==
  IF \/ (hedge.left <= col.left /\ hedge.right > col.left)
     \/ (hedge.left < ColRight(col) /\ hedge.right >= ColRight(col))
     \/ (hedge.left < col.left /\ hedge.right > ColRight(col))
     \/ (hedge.left > col.left /\ hedge.right < ColRight(col))
  THEN [col EXCEPT !.bottom = Max(hedge.y, col.bottom),
                   !.top = Min(hedge.y, col.top)]
  ELSE col

RECURSIVE ClipAll(_, _, _)
ClipAll(col, hs, i) ==
  IF i > Len(hs) THEN col ELSE ClipAll(clip(col, hs[i]), hs, i + 1)

\* mutant: the planks stay where they were
M_lineUpPlanks(col) == col

lineUpPlanks(col) ==
  [col EXCEPT !.planks = [k \in DOMAIN col.planks |->
                            [col.planks[k] EXCEPT !.left = col.left]]]

----------------------------------------------------------------------------
(* Room.measure *)

RECURSIVE MeasureFrom(_, _, _)
MeasureFrom(vs, i, m) ==
  IF i > Len(vs) THEN m
  ELSE LET p1 == vs[i]
           p2 == vs[(i % Len(vs)) + 1]
           m1 == [m EXCEPT !.leftmost = Min(m.leftmost, p1.x),
                           !.rightmost = Max(m.rightmost, p1.x),
                           !.topmost = Min(m.topmost, p1.y),
                           !.bottommost = Max(m.bottommost, p1.y)]
           m2 == IF p1.y = p2.y
                 THEN [m1 EXCEPT !.hedges =
                         Append(m1.hedges, HEdge(Min(p1.x, p2.x),
                                                 Max(p1.x, p2.x), p1.y))]
                 ELSE m1
       IN MeasureFrom(vs, i + 1, m2)

\* mutant: the loop over the vertices starts one too late
M_measure(vs) ==
  MeasureFrom(vs, 2, [hedges |-> <<>>,
                      leftmost |-> MAX_SAFE_INTEGER,
                      rightmost |-> MIN_SAFE_INTEGER,
                      topmost |-> MAX_SAFE_INTEGER,
                      bottommost |-> MIN_SAFE_INTEGER])

measure(vs) ==
  MeasureFrom(vs, 1, [hedges |-> <<>>,
                      leftmost |-> MAX_SAFE_INTEGER,
                      rightmost |-> MIN_SAFE_INTEGER,
                      topmost |-> MAX_SAFE_INTEGER,
                      bottommost |-> MIN_SAFE_INTEGER])

----------------------------------------------------------------------------
(* Room.selectPartial: index of the plank it returns, 0 for undefined *)

RECURSIVE SelectScan(_, _, _, _, _)
SelectScan(ps, cut_end, min_length, i, best) ==
  IF i > Len(ps) THEN best
  ELSE LET partial == ps[i]
           take == /\ partial.cut_end = cut_end
                   /\ partial.length > min_length
                   /\ (best = 0 \/ partial.length > ps[best].length)
       IN SelectScan(ps, cut_end, min_length, i + 1, IF take THEN i ELSE best)

\* mutant: of the longest partials the last one is taken
M_selectPartial(ps, cut_end, min_length) ==
  LET match == { k \in DOMAIN ps : /\ ps[k].cut_end = cut_end
                                   /\ ps[k].length > min_length }
  IN IF match = {} THEN 0
     ELSE CHOOSE b \in match :
            \A k \in match : \/ ps[k].length < ps[b].length
                             \/ ps[k].length = ps[b].length /\ k <= b

selectPartial(ps, cut_end, min_length) ==
  SelectScan(ps, cut_end, min_length, 1, 0)

\* mutant: the first element is taken out, whatever the index
M_Splice(s, i) == Tail(s)

\* Array.splice(i, 1)
Splice(s, i) == [k \in 1..(Len(s) - 1) |-> IF k < i THEN s[k] ELSE s[k + 1]]

----------------------------------------------------------------------------
(* Room.waste (getter) *)

RECURSIVE Columnage(_, _)
Columnage(cols, i) ==
  IF i > Len(cols) THEN 0 ELSE Height(cols[i]) + Columnage(cols, i + 1)

\* mutant: the first column is left out of the sum
M_waste == planksNeeded * PLANK_LENGTH - Columnage(columns, 2)

waste == planksNeeded * PLANK_LENGTH - Columnage(columns, 1)

----------------------------------------------------------------------------
(* Room.collectPermanentPartials *)

RECURSIVE PlacedPlanks(_, _)
PlacedPlanks(cols, i) ==
  IF i > Len(cols) THEN <<>> ELSE cols[i].planks \o PlacedPlanks(cols, i + 1)

IsPermanent(p) == p.permanent

\* mutant: the partials of the pool are all kept, permanent or not
M_collectPermanentPartials(ps, cols, next) ==
  LET nPartials == ps \o SelectSeq(PlacedPlanks(cols, 1), IsPermanent)
  IN [partials |-> [k \in DOMAIN nPartials |->
                      [nPartials[k] EXCEPT !.id = next + k - 1]],
      NEXT |-> next + Len(nPartials)]

collectPermanentPartials(ps, cols, next) ==
  LET nPartials == SelectSeq(ps, IsPermanent)
                     \o SelectSeq(PlacedPlanks(cols, 1), IsPermanent)
  IN [partials |-> [k \in DOMAIN nPartials |->
                      [nPartials[k] EXCEPT !.id = next + k - 1]],
      NEXT |-> next + Len(nPartials)]

----------------------------------------------------------------------------
(* Room.recomputeFloor *)

\* mutant: the first column starts at leftmost, START_LEFT is forgotten
M_RecomputeStart(ps, cols, uid, left) ==
  LET kept == collectPermanentPartials(ps, cols, 1)
  IN [partials |-> kept.partials, columns |-> <<>>,
      planksNeeded |-> 0, cuts |-> 0,
      NEXT |-> kept.NEXT, UID |-> uid,
      l |-> left,
      first_offset |-> START_TOP, pickPartial |-> TRUE]

\* the part of recomputeFloor before the column loop
RecomputeStart(ps, cols, uid, left) ==
  LET kept == collectPermanentPartials(ps, cols, 1)
  IN [partials |-> kept.partials, columns |-> <<>>,
      planksNeeded |-> 0, cuts |-> 0,
      NEXT |-> kept.NEXT, UID |-> uid,
      l |-> left + START_LEFT,
      first_offset |-> START_TOP, pickPartial |-> TRUE]

\* mutant: whole planks are laid while h >= PLANK_LENGTH
RECURSIVE M_LayFullPlanks(_)
M_LayFullPlanks(f) ==
  IF f.h >= PLANK_LENGTH
  THEN M_LayFullPlanks(
         [planks |-> Append(f.planks,
                       Plank(f.UID, f.NEXT, "", f.left, f.y, PLANK_WIDTH,
                             PLANK_LENGTH, FALSE)),
          left |-> f.left,
          y |-> f.y + PLANK_LENGTH,
          h |-> f.h - PLANK_LENGTH,
          fullPlanks |-> f.fullPlanks + 1,
          NEXT |-> f.NEXT + 1, UID |-> f.UID + 1])
  ELSE f

\* while (h > PLANK_LENGTH): lay whole planks
RECURSIVE LayFullPlanks(_)
LayFullPlanks(f) ==
  IF f.h > PLANK_LENGTH
  THEN LayFullPlanks(
         [planks |-> Append(f.planks,
                       Plank(f.UID, f.NEXT, "", f.left, f.y, PLANK_WIDTH,
                             PLANK_LENGTH, FALSE)),
          left |-> f.left,
          y |-> f.y + PLANK_LENGTH,
          h |-> f.h - PLANK_LENGTH,
          fullPlanks |-> f.fullPlanks + 1,
          NEXT |-> f.NEXT + 1, UID |-> f.UID + 1])
  ELSE f

\* the probe for a bottom-cut partial made before a fresh cut
ProbeBasePartial(ps, probing, h) ==
  LET b == IF probing THEN selectPartial(ps, "<", 0) ELSE 0
  IN IF b = 0 THEN ps
     ELSE IF ps[b].length >= h
          THEN Splice(ps, b)                    \* logged, not put back
          ELSE Append(Splice(ps, b), ps[b])     \* put it back

\* mutant: the kerf is not taken off
M_Over(h) == PLANK_LENGTH - h

\* the excess of the plank that is cut to length h
Over(h) == PLANK_LENGTH - h - CUT_THICKNESS

\* mutant: the rest is saved whatever is left of the plank
M_SaveEveryOver(over) == TRUE

\* mutant: a rest of exactly MIN_PLANK_LENGTH is saved too
M_SaveOver(over) == over >= MIN_PLANK_LENGTH

\* mutant: any rest is saved, the minimum length is forgotten
M_SaveAnyOver(over) == over > 0

\* over > MIN_PLANK_LENGTH: is the rest of the cut plank saved?
SaveOver(over) == over > MIN_PLANK_LENGTH

\* mutant: the length at the bottom is not marked as cut
M_CutPlank(uid, id, left, y, h) ==
  Plank(uid, id, "", left, y, PLANK_WIDTH, h, FALSE)

\* the length at the bottom of the column
CutPlank(uid, id, left, y, h) ==
  Plank(uid, id, "<", left, y, PLANK_WIDTH, h, FALSE)

\* mutant: the saved rest takes an id of its own
M_RestPlank(uid, cp, left, y, over) ==
  Plank(uid, cp.id + 1, ">", left, y, PLANK_WIDTH, over, FALSE)

\* the rest of the cut plank cp, saved as a partial
RestPlank(uid, cp, left, y, over) ==
  Plank(uid, cp.id, ">", left, y, PLANK_WIDTH, over, FALSE)

\* one iteration of the column loop
ColumnIter(st) ==
  LET col == ClipAll(Column(st.l, PLANK_WIDTH), hedges, 1)
      y0 == col.top + st.first_offset
      h0 == Height(col) - st.first_offset
      sel == IF st.pickPartial THEN selectPartial(st.partials, ">", 0) ELSE 0
      partial == [st.partials[sel] EXCEPT !.left = st.l, !.top = y0]
      pool1 == IF sel = 0 THEN st.partials ELSE Splice(st.partials, sel)
      f == LayFullPlanks(
             [planks |-> IF sel = 0 THEN <<>> ELSE <<partial>>,
              left |-> st.l,
              y |-> IF sel = 0 THEN y0 ELSE y0 + partial.length,
              h |-> IF sel = 0 THEN h0 ELSE h0 - partial.length,
              fullPlanks |-> 0, NEXT |-> st.NEXT, UID |-> st.UID])
  IN IF f.h > 0 /\ f.h < MIN_PLANK_LENGTH /\ sel # 0
     THEN \* try this column again, starting with a full plank
          [st EXCEPT !.partials = Append(pool1, partial),
                     !.NEXT = f.NEXT, !.UID = f.UID,
                     !.first_offset = 0,
                     !.pickPartial = FALSE]
     ELSE IF f.h > 0
     THEN LET pool2 == ProbeBasePartial(pool1, st.pickPartial, f.h)
              cp == CutPlank(f.UID, f.NEXT, st.l, f.y, f.h)
              over == Over(f.h)
              rest == RestPlank(f.UID + 1, cp, st.l, f.y + f.h, over)
          IN [partials |-> IF SaveOver(over) THEN Append(pool2, rest)
                           ELSE pool2,
              columns |-> Append(st.columns,
                            [col EXCEPT !.planks = Append(f.planks, cp)]),
              planksNeeded |-> st.planksNeeded + f.fullPlanks + 1,
              cuts |-> st.cuts + 1,
              NEXT |-> f.NEXT + 1,
              UID |-> IF SaveOver(over) THEN f.UID + 2 ELSE f.UID + 1,
              l |-> st.l + PLANK_WIDTH,
              first_offset |-> 0, pickPartial |-> TRUE]
     ELSE [partials |-> pool1,
           columns |-> Append(st.columns, [col EXCEPT !.planks = f.planks]),
           planksNeeded |-> st.planksNeeded + f.fullPlanks,
           cuts |-> st.cuts,
           NEXT |-> f.NEXT, UID |-> f.UID,
           l |-> st.l + PLANK_WIDTH,
           first_offset |-> 0, pickPartial |-> TRUE]

\* the whole column loop, run to completion
RECURSIVE RunLoop(_)
RunLoop(st) == IF st.l < rightmost THEN RunLoop(ColumnIter(st)) ELSE st

LoopState ==
  [partials |-> partials, columns |-> columns,
   planksNeeded |-> planksNeeded, cuts |-> cuts, NEXT |-> NEXT, UID |-> UID,
   l |-> l, first_offset |-> first_offset, pickPartial |-> pickPartial]

\* the loop state becomes the next state; the run ends when the loop
\* condition fails
Continue(st, right) ==
  /\ partials' = st.partials
  /\ columns' = st.columns
  /\ planksNeeded' = st.planksNeeded
  /\ cuts' = st.cuts
  /\ NEXT' = st.NEXT
  /\ UID' = st.UID
  /\ l' = st.l
  /\ first_offset' = st.first_offset
  /\ pickPartial' = st.pickPartial
  /\ pc' = IF st.l < right THEN "loop" ELSE "idle"

----------------------------------------------------------------------------
(* Room.shuffle *)

\* mutant: the first column is binned with the others
M_Binned == DOMAIN columns

\* indices of the columns that are binned
Binned == { i \in DOMAIN columns : ~(START_TOP # 0 /\ i = 1) }

\* the bin of one height: its column indices, in column order
RECURSIVE BinOf(_, _)
BinOf(height, i) ==
  IF i > Len(columns) THEN <<>>
  ELSE IF i \in Binned /\ Height(columns[i]) = height
       THEN <<i>> \o BinOf(height, i + 1)
       ELSE BinOf(height, i + 1)

SwapLeft(lefts, from, to) ==
  [lefts EXCEPT ![from] = lefts[to], ![to] = lefts[from]]

\* the i-th and later of the 2 * bin.length swaps; from = i % bin.length,
\* to is any other slot of the bin.  S is the set of possible lefts so far.
RECURSIVE SwapsFrom(_, _, _)
SwapsFrom(S, i, n) ==
  IF i >= 2 * n THEN S
  ELSE SwapsFrom({ SwapLeft(lefts, (i % n) + 1, to) :
                     lefts \in S, to \in (1..n) \ {(i % n) + 1} }, i + 1, n)

\* possible lefts of the columns of one bin after its swaps
BinLefts(bin) ==
  LET lefts0 == [k \in DOMAIN bin |-> columns[bin[k]].left]
  IN IF Len(bin) > 1 THEN SwapsFrom({lefts0}, 0, Len(bin)) ELSE {lefts0}

\* every way the bins can come out: functions column index -> new left
RECURSIVE ShuffledLefts(_, _)
ShuffledLefts(heights, acc) ==
  IF heights = {} THEN acc
  ELSE LET hh == CHOOSE x \in heights : TRUE
           bin == BinOf(hh, 1)
       IN ShuffledLefts(heights \ {hh},
            { [i \in DOMAIN columns |->
                 IF \E k \in DOMAIN bin : bin[k] = i
                 THEN lefts[CHOOSE k \in DOMAIN bin : bin[k] = i]
                 ELSE a[i]] : a \in acc, lefts \in BinLefts(bin) })

\* columns.sort by left (stable)
RECURSIVE SortByLeft(_)
SortByLeft(cols) ==
  IF cols = <<>> THEN <<>>
  ELSE LET m == CHOOSE i \in DOMAIN cols :
                  /\ \A j \in DOMAIN cols : cols[i].left <= cols[j].left
                  /\ \A j \in 1..(i - 1) : cols[j].left # cols[i].left
       IN <<cols[m]>> \o SortByLeft(Splice(cols, m))

\* old ids in order of first appearance; the new id is the position
RECURSIVE FirstSeen(_, _, _)
FirstSeen(ps, i, seen) ==
  IF i > Len(ps) THEN seen
  ELSE FirstSeen(ps, i + 1,
                 IF \E k \in DOMAIN seen : seen[k] = ps[i].id THEN seen
                 ELSE Append(seen, ps[i].id))

\* mutant: every plank takes the next number, the lookup is forgotten
M_Renumber(cols) ==
  LET before(c) == Len(PlacedPlanks(SubSeq(cols, 1, c - 1), 1))
  IN [c \in DOMAIN cols |->
        [cols[c] EXCEPT !.planks =
           [k \in DOMAIN cols[c].planks |->
              [cols[c].planks[k] EXCEPT !.id = before(c) + k]]]]

Renumber(cols) ==
  LET seen == FirstSeen(PlacedPlanks(cols, 1), 1, <<>>)
      remap(id) == CHOOSE k \in DOMAIN seen : seen[k] = id
  IN [c \in DOMAIN cols |->
        [cols[c] EXCEPT !.planks =
           [k \in DOMAIN cols[c].planks |->
              [cols[c].planks[k] EXCEPT !.id = remap(cols[c].planks[k].id)]]]]

\* the column lists shuffle can leave behind
ShuffleOutcomes ==
  LET heights == { Height(columns[i]) : i \in Binned }
      moved(i) == Len(BinOf(Height(columns[i]), 1)) > 1 /\ i \in Binned
      place(a) == [i \in DOMAIN columns |->
                     IF moved(i)
                     THEN lineUpPlanks([columns[i] EXCEPT !.left = a[i]])
                     ELSE columns[i]]
  IN { Renumber(SortByLeft(place(a))) :
         a \in ShuffledLefts(heights,
                             {[i \in DOMAIN columns |-> columns[i].left]}) }

----------------------------------------------------------------------------
(* Room.cuttingSchedule *)

\* a property that was never set
Undefined == "undefined"

\* `${plank.id}< ${length}` and `${length} ${plank.id}>`
CutText(plank) ==
  IF plank.cut_end = "<" THEN <<plank.id, "<", plank.length>>
  ELSE <<plank.length, plank.id, ">">>

\* the loop over the planks of the columns; cs is the sparse array cuts,
\* a function on the ids that have an entry
RECURSIVE ScheduleFrom(_, _, _)
ScheduleFrom(ps, i, cs) ==
  IF i > Len(ps) THEN cs
  ELSE LET plank == ps[i]
           entry == IF plank.id \in DOMAIN cs THEN cs[plank.id]
                    ELSE [e \in CutEnds |-> Undefined]
       IN IF plank.cut_end # ""
          THEN ScheduleFrom(ps, i + 1,
                 [id \in DOMAIN cs \cup {plank.id} |->
                    IF id = plank.id
                    THEN [entry EXCEPT ![plank.cut_end] = CutText(plank)]
                    ELSE cs[id]])
          ELSE ScheduleFrom(ps, i + 1, cs)

cuttingSchedule == ScheduleFrom(PlacedPlanks(columns, 1), 1, <<>>)

----------------------------------------------------------------------------
(* Room's constructor up to its last statement: the fields are set from   *)
(* the template (vertices, parameters and, when given, partials).           *)

\* template.partials: each entry is copied with new Plank(plank)
TemplatePlank(k, length, cut_end, permanent) ==
  Plank(k - 1, k, cut_end, 0, 0, 10, length, permanent)

ConstructorFields(template) ==
  /\ vertices = template.vertices
  /\ PLANK_WIDTH = template.PLANK_WIDTH
  /\ PLANK_LENGTH = template.PLANK_LENGTH
  /\ CUT_THICKNESS = template.CUT_THICKNESS
  /\ MIN_PLANK_LENGTH = template.MIN_PLANK_LENGTH
  /\ START_LEFT = template.START_LEFT
  /\ START_TOP = template.START_TOP
  /\ hedges = <<>>
  /\ columns = <<>>
  /\ leftmost = MAX_SAFE_INTEGER
  /\ rightmost = MIN_SAFE_INTEGER
  /\ topmost = MAX_SAFE_INTEGER
  /\ bottommost = MIN_SAFE_INTEGER
  /\ partials = template.partials
  /\ planksNeeded = 0
  /\ cuts = 0
  /\ NEXT = 1 + Len(template.partials)
  /\ UID = Len(template.partials)
  /\ pc = "construct"
  /\ l = 0
  /\ first_offset = 0
  /\ pickPartial = TRUE

\* room files with vertices and parameters only
Templates ==
  [vertices : Rooms,
   PLANK_WIDTH : {10}, PLANK_LENGTH : {60},
   CUT_THICKNESS : CutThicknesses,
   MIN_PLANK_LENGTH : MinPlankLengths,
   START_LEFT : StartLefts,
   START_TOP : StartTops,
   partials : {<<>>}]

Init == \E template \in Templates : ConstructorFields(template)

\* end of Room's constructor: columns is empty, so measure and recomputeFloor
Construct ==
  /\ pc = "construct"
  /\ Len(columns) = 0
  /\ LET m == measure(vertices)
     IN /\ hedges' = m.hedges
        /\ leftmost' = m.leftmost
        /\ rightmost' = m.rightmost
        /\ topmost' = m.topmost
        /\ bottommost' = m.bottommost
        /\ Continue(RecomputeStart(partials, columns, UID, m.leftmost),
                    m.rightmost)
  /\ UNCHANGED <<vertices, params>>

\* one pass of the column loop of recomputeFloor
ColumnStep ==
  /\ pc = "loop"
  /\ l < rightmost
  /\ Continue(ColumnIter(LoopState), rightmost)
  /\ UNCHANGED <<geometry, params>>

\* #try_again: recomputeFloor
TryAgain ==
  /\ pc = "idle"
  /\ UID <= MaxUID
  /\ Continue(RecomputeStart(partials, columns, UID, leftmost), rightmost)
  /\ UNCHANGED <<geometry, params>>

NumPermanent ==
  Len(SelectSeq(partials \o PlacedPlanks(columns, 1), IsPermanent))

\* #submit_partial: push a permanent plank, then recomputeFloor
SubmitPartial(length, cut_end) ==
  /\ pc = "idle"
  /\ UID <= MaxUID
  /\ NumPermanent < MaxPermanent
  /\ LET partial == Plank(UID, NEXT, cut_end, 0, 0, PLANK_WIDTH, length, TRUE)
     IN Continue(RecomputeStart(Append(partials, partial), columns, UID + 1,
                                leftmost), rightmost)
  /\ UNCHANGED <<geometry, params>>

\* #shuffle
Shuffle ==
  /\ pc = "idle"
  /\ columns' \in ShuffleOutcomes
  /\ UNCHANGED <<geometry, params, partials, planksNeeded, cuts, NEXT, UID,
                 pc, l, first_offset, pickPartial>>

----------------------------------------------------------------------------
(* Saving a room and loading the saved file: JSON.stringify(room), then    *)
(* new Room(JSON.parse(text)).                                             *)

\* JSON.stringify(room): the own fields of the room; the waste getter and
\* the statics Plank.NEXT and Plank.UID are not part of the document
toJSON ==
  [vertices |-> vertices,
   PLANK_WIDTH |-> PLANK_WIDTH, PLANK_LENGTH |-> PLANK_LENGTH,
   CUT_THICKNESS |-> CUT_THICKNESS, MIN_PLANK_LENGTH |-> MIN_PLANK_LENGTH,
   START_LEFT |-> START_LEFT, START_TOP |-> START_TOP,
   hedges |-> hedges, columns |-> columns,
   leftmost |-> leftmost, rightmost |-> rightmost,
   topmost |-> topmost, bottommost |-> bottommost,
   partials |-> partials, planksNeeded |-> planksNeeded, cuts |-> cuts]

\* mutant: a loaded plank takes a new id, as it takes a new uid
M_PlankFrom(attrs, uid) ==
  Plank(uid, uid + 1, attrs.cut_end, attrs.left, attrs.top, attrs.width,
        attrs.length, attrs.permanent)

\* new Plank(attrs): the attributes are copied, the uid is Plank.UID++
PlankFrom(attrs, uid) ==
  Plank(uid, attrs.id, attrs.cut_end, attrs.left, attrs.top, attrs.width,
        attrs.length, attrs.permanent)

\* new Plank for each entry of a list, uids counting up from uid
PlanksFrom(list, uid) ==
  [k \in DOMAIN list |-> PlankFrom(list[k], uid + k - 1)]

\* new Column(attrs) for each saved column, uids counting up from uid
RECURSIVE ColumnsFrom(_, _)
ColumnsFrom(list, uid) ==
  IF list = <<>> THEN <<>>
  ELSE <<[left |-> Head(list).left, width |-> Head(list).width,
          top |-> Head(list).top, bottom |-> Head(list).bottom,
          planks |-> PlanksFrom(Head(list).planks, uid)]>>
       \o ColumnsFrom(Tail(list), uid + Len(Head(list).planks))

\* the fields of new Room(template) for a saved document, before the last
\* statement of the constructor; uid is Plank.UID when the constructor starts
RoomFrom(template, uid) ==
  LET placed == Len(PlacedPlanks(template.columns, 1))
  IN [vertices |-> template.vertices,
      PLANK_WIDTH |-> template.PLANK_WIDTH,
      PLANK_LENGTH |-> template.PLANK_LENGTH,
      CUT_THICKNESS |-> template.CUT_THICKNESS,
      MIN_PLANK_LENGTH |-> template.MIN_PLANK_LENGTH,
      START_LEFT |-> template.START_LEFT,
      START_TOP |-> template.START_TOP,
      hedges |-> [k \in DOMAIN template.hedges |->
                    HEdge(template.hedges[k].left, template.hedges[k].right,
                          template.hedges[k].y)],
      columns |-> ColumnsFrom(template.columns, uid),
      leftmost |-> template.leftmost, rightmost |-> template.rightmost,
      topmost |-> template.topmost, bottommost |-> template.bottommost,
      partials |-> PlanksFrom(template.partials, uid + placed),
      planksNeeded |-> template.planksNeeded, cuts |-> template.cuts,
      UID |-> uid + placed + Len(template.partials)]

\* #save_room, then #room_file with the saved file: loadRoom.  The page
\* stays, so Plank.UID counts on and Plank.NEXT is left alone.  With no
\* saved column the constructor goes on to measure and recomputeFloor.
UploadRoom ==
  /\ pc = "idle"
  /\ UID <= MaxUID
  /\ LET room == RoomFrom(toJSON, UID)
     IN /\ vertices' = room.vertices
        /\ PLANK_WIDTH' = room.PLANK_WIDTH
        /\ PLANK_LENGTH' = room.PLANK_LENGTH
        /\ CUT_THICKNESS' = room.CUT_THICKNESS
        /\ MIN_PLANK_LENGTH' = room.MIN_PLANK_LENGTH
        /\ START_LEFT' = room.START_LEFT
        /\ START_TOP' = room.START_TOP
        /\ hedges' = room.hedges
        /\ columns' = room.columns
        /\ leftmost' = room.leftmost
        /\ rightmost' = room.rightmost
        /\ topmost' = room.topmost
        /\ bottommost' = room.bottommost
        /\ partials' = room.partials
        /\ planksNeeded' = room.planksNeeded
        /\ cuts' = room.cuts
        /\ UID' = room.UID
        /\ pc' = IF Len(room.columns) = 0 THEN "construct" ELSE "idle"
  /\ UNCHANGED <<NEXT, l, first_offset, pickPartial>>

Next ==
  \/ Construct
  \/ ColumnStep
  \/ TryAgain
  \/ \E length \in PartialLengths, cut_end \in CutEnds :
       SubmitPartial(length, cut_end)
  \/ Shuffle
  \/ UploadRoom

Spec == Init /\ [][Next]_vars

----------------------------------------------------------------------------
(* The 100 x 100 example room of the README, loaded with the parameters    *)
(* of the scenario and with any partials a room file may carry.            *)

MaxTemplatePartials == 2

TemplatePartials ==
  UNION { [1..n -> PartialLengths \X CutEnds \X BOOLEAN] :
            n \in 0..MaxTemplatePartials }

ExampleTemplates ==
  { [vertices |-> RectRoom(100, 100),
     PLANK_WIDTH |-> 10, PLANK_LENGTH |-> 60,
     CUT_THICKNESS |-> 0, MIN_PLANK_LENGTH |-> 20,
     START_LEFT |-> 0, START_TOP |-> 0,
     partials |-> [k \in DOMAIN t |->
                     TemplatePlank(k, t[k][1], t[k][2], t[k][3])]] :
      t \in TemplatePartials }

InitExample == \E template \in ExampleTemplates : ConstructorFields(template)

NextExample == Construct \/ ColumnStep

SpecExample == InitExample /\ [][NextExample]_vars

----------------------------------------------------------------------------
(* Room files that carry pre-cut planks and start the planking at an       *)
(* offset from the top of the first column.                                *)

FileStartTops == {10, 20}

FileTemplates ==
  { [vertices |-> room,
     PLANK_WIDTH |-> 10, PLANK_LENGTH |-> 60,
     CUT_THICKNESS |-> cut, MIN_PLANK_LENGTH |-> min,
     START_LEFT |-> 0, START_TOP |-> start,
     partials |-> [k \in DOMAIN t |->
                     TemplatePlank(k, t[k][1], t[k][2], t[k][3])]] :
      room \in {RectRoom(20, 120), RectRoom(40, 100), RectRoom(20, 65)},
      cut \in CutThicknesses, min \in MinPlankLengths,
      start \in FileStartTops, t \in TemplatePartials }

InitFile == \E template \in FileTemplates : ConstructorFields(template)

SpecFile == InitFile /\ [][NextExample]_vars

----------------------------------------------------------------------------
(* Rooms given by any list of vertices on a small grid, with the default   *)
(* parameters (CUT_THICKNESS 0): measure is run on each of them.           *)

MaxVertices == 4

GridX == {0, 10, 20}
GridY == {0, 30}

VertexLists ==
  UNION { [1..n -> { Vertex(x, y) : x \in GridX, y \in GridY }] :
            n \in 0..MaxVertices }

InitMeasure ==
  \E vs \in VertexLists :
    ConstructorFields([vertices |-> vs,
                       PLANK_WIDTH |-> 10, PLANK_LENGTH |-> 60,
                       CUT_THICKNESS |-> 0, MIN_PLANK_LENGTH |-> 20,
                       START_LEFT |-> 0, START_TOP |-> 0,
                       partials |-> <<>>])

SpecMeasure == InitMeasure /\ [][NextExample]_vars

----------------------------------------------------------------------------
(* Rooms whose vertices do not lie on the column grid, so that edges end   *)
(* inside, on and outside the columns that are clipped against them.       *)

ClipGridX == {0, 10, 12, 15, 30}
ClipStartLefts == {0, 5}

ClipVertexLists ==
  UNION { [1..n -> { Vertex(x, y) : x \in ClipGridX, y \in GridY }] :
            n \in 0..MaxVertices }

InitClip ==
  \E vs \in ClipVertexLists, start \in ClipStartLefts :
    ConstructorFields([vertices |-> vs,
                       PLANK_WIDTH |-> 10, PLANK_LENGTH |-> 60,
                       CUT_THICKNESS |-> 0, MIN_PLANK_LENGTH |-> 20,
                       START_LEFT |-> start, START_TOP |-> 0,
                       partials |-> <<>>])

SpecClip == InitClip /\ [][NextExample]_vars

----------------------------------------------------------------------------
(* A room without vertices that is given a pool of pre-cut planks, and     *)
(* calls of Room.selectPartial on that pool.                               *)

MaxPool == 3

\* the values of min_length: below, at and between the lengths in the pool
MinLengths == {0, 30, 40, 50}

Pools == UNION { [1..n -> PartialLengths \X CutEnds] : n \in 0..MaxPool }

InitSelect ==
  \E t \in Pools :
    ConstructorFields([vertices |-> <<>>,
                       PLANK_WIDTH |-> 10, PLANK_LENGTH |-> 60,
                       CUT_THICKNESS |-> 0, MIN_PLANK_LENGTH |-> 20,
                       START_LEFT |-> 0, START_TOP |-> 0,
                       partials |-> [k \in DOMAIN t |->
                                       TemplatePlank(k, t[k][1], t[k][2],
                                                     TRUE)]])

\* room.selectPartial(cut_end, min_length): the plank returned is spliced
\* out of the pool
SelectPartial(cut_end, min_length) ==
  /\ pc = "idle"
  /\ LET best == selectPartial(partials, cut_end, min_length)
     IN partials' = IF best = 0 THEN partials ELSE Splice(partials, best)
  /\ UNCHANGED <<geometry, params, columns, planksNeeded, cuts, NEXT, UID,
                 pc, l, first_offset, pickPartial>>

NextSelect ==
  \/ Construct
  \/ \E cut_end \in CutEnds, min_length \in MinLengths :
       SelectPartial(cut_end, min_length)

SpecSelect == InitSelect /\ [][NextSelect]_vars

----------------------------------------------------------------------------
(* Claims *)

Idle == pc = "idle"

RECURSIVE SeqSum(_)
SeqSum(q) == IF q = <<>> THEN 0 ELSE Head(q) + SeqSum(Tail(q))

Last(q) == q[Len(q)]

Placed == PlacedPlanks(columns, 1)

\* the step is a pass of the column loop that kept its column
KeptColumn == pc = "loop" /\ Len(columns') = Len(columns) + 1

\* the step is a pass that ended with a fresh cut
FreshCut == KeptColumn /\ cuts' = cuts + 1

\* the planks created by the step that are in the pool afterwards
Banked == SelectSeq(partials', LAMBDA p : p.uid >= UID)

\* C1 (as claimed): after recomputeFloor every placed plank with cut_end ">"
\* is the first plank of its column with its top on the column's top edge,
\* and every placed plank with cut_end "<" is the last plank of its column
\* with its bottom on the column's bottom edge.
C1_ButtJoint ==
  Idle =>
    \A c \in DOMAIN columns : \A k \in DOMAIN columns[c].planks :
      LET col == columns[c]
          plank == col.planks[k]
      IN /\ plank.cut_end = ">" => (k = 1 /\ plank.top = col.top)
         /\ plank.cut_end = "<" =>
              (k = Len(col.planks) /\ PlankBottom(plank) = col.bottom)

\* C2: the sum of the column heights plus waste equals
\* planksNeeded * PLANK_LENGTH, in every state of the room.
C2_WasteIdentity ==
  SeqSum([c \in DOMAIN columns |-> columns[c].bottom - columns[c].top]) + waste
    = planksNeeded * PLANK_LENGTH

\* C2 witness: a computed layout with columns and some waste
C2_Witness == Idle /\ Len(columns) = 3 /\ waste > 0 /\ planksNeeded > 3

\* what each fresh cut discards: the kerf, and the rest of the plank when
\* it is not saved as a partial
Discarded ==
  SeqSum([k \in DOMAIN Placed |->
            IF Placed[k].cut_end = "<"
            THEN CUT_THICKNESS
                 + (IF PLANK_LENGTH - Placed[k].length - CUT_THICKNESS
                        > MIN_PLANK_LENGTH
                    THEN 0
                    ELSE PLANK_LENGTH - Placed[k].length - CUT_THICKNESS)
            ELSE 0])

\* C3 (as claimed): after recomputeFloor waste is CUT_THICKNESS for every
\* cut plus every remainder too short to bank, and nothing else.
C3_OnlyDiscarded == Idle => waste = Discarded

\* lengths of the non-permanent partials still in the pool
PoolLeft ==
  SeqSum([k \in DOMAIN partials |->
            IF partials[k].permanent THEN 0 ELSE partials[k].length])

\* lengths of the permanent planks laid in columns
PermanentLaid ==
  SeqSum([k \in DOMAIN Placed |->
            IF Placed[k].permanent THEN Placed[k].length ELSE 0])

\* by how much the planks of the columns exceed the column heights
\* (-START_TOP for an offset first column, the overhang of a partial
\* longer than its column, 0 for a column its planks tile exactly)
Excess ==
  SeqSum([c \in DOMAIN columns |->
            SeqSum([k \in DOMAIN columns[c].planks |->
                      columns[c].planks[k].length])
            - (columns[c].bottom - columns[c].top)])

\* C3 (amended): waste is what the cuts discard, plus the saved partials
\* that are still in the pool, less the permanent planks laid, plus the
\* excess of the planks over the column heights.
C3_WasteAccount ==
  Idle => waste = Discarded + PoolLeft - PermanentLaid + Excess

\* C3 witness: a layout with a cut that wasted its rest, a saved partial that
\* was used and one that was left over
C3_Witness ==
  /\ Idle
  /\ PoolLeft > 0
  /\ Discarded > CUT_THICKNESS * cuts
  /\ \E k \in DOMAIN Placed :
       Placed[k].cut_end = ">" /\ ~Placed[k].permanent

\* C4: whenever a column's trailing cut banks a partial, trailing.length +
\* partial.length + CUT_THICKNESS = PLANK_LENGTH, both pieces have the same
\* id, the trailing piece is marked "<" and the banked piece ">".
C4_CutPair ==
  [][ KeptColumn =>
        \A k \in DOMAIN Banked :
          LET trailing == Last(Last(columns').planks)
          IN /\ trailing.length + Banked[k].length + CUT_THICKNESS
                  = PLANK_LENGTH
             /\ trailing.id = Banked[k].id
             /\ trailing.cut_end = "<"
             /\ Banked[k].cut_end = ">" ]_vars

\* C4 witness: the pool holds the rest of the plank cut for the last column
C4_Witness ==
  /\ columns # <<>>
  /\ partials # <<>>
  /\ CUT_THICKNESS > 0
  /\ Last(columns).planks # <<>>
  /\ Last(partials).uid = Last(Last(columns).planks).uid + 1
  /\ Last(partials).id = Last(Last(columns).planks).id
  /\ ~Last(partials).permanent

\* C5: the rest of a cut plank is added to the pool if and only if it is
\* strictly longer than MIN_PLANK_LENGTH (a rest equal to MIN_PLANK_LENGTH
\* is wasted), and every non-permanent partial in the pool is longer than
\* MIN_PLANK_LENGTH.
C5_BankRule ==
  [][ /\ FreshCut =>
           LET trailing == Last(Last(columns').planks)
               rest == PLANK_LENGTH - trailing.length - CUT_THICKNESS
           IN /\ Len(Banked) = (IF rest > MIN_PLANK_LENGTH THEN 1 ELSE 0)
              /\ \A k \in DOMAIN Banked : Banked[k].length = rest
      /\ \A k \in DOMAIN partials' :
           ~partials'[k].permanent =>
              partials'[k].length > MIN_PLANK_LENGTH ]_vars

\* C5 witness: a cut left exactly MIN_PLANK_LENGTH, and nothing was banked
C5_Witness ==
  /\ columns # <<>>
  /\ Last(columns).planks # <<>>
  /\ LET trailing == Last(Last(columns).planks)
     IN /\ trailing.cut_end = "<"
        /\ PLANK_LENGTH - trailing.length - CUT_THICKNESS = MIN_PLANK_LENGTH
        /\ \A k \in DOMAIN partials : partials[k].id # trailing.id

\* C6 (as claimed): a column whose clipped height is an exact positive
\* multiple of PLANK_LENGTH, filled over its whole height and not started
\* with a partial, adds nothing to cuts and nothing to waste.
C6_ExactMultiple ==
  [][ ( /\ KeptColumn
        /\ first_offset = 0
        /\ Height(Last(columns')) > 0
        /\ Height(Last(columns')) % PLANK_LENGTH = 0
        /\ Last(columns').planks # <<>>
        /\ Last(columns').planks[1].cut_end # ">" )
      => (cuts' = cuts /\ waste' = waste) ]_vars

\* C7 (as claimed): the 100 x 100 room with PLANK_WIDTH 10, PLANK_LENGTH 60,
\* CUT_THICKNESS 0, MIN_PLANK_LENGTH 20, no offsets and no pre-cut partials
\* gets 10 columns of height 100, each one full plank (60) and one cut plank
\* (40), planksNeeded = 20, cuts = 10 and waste = 0.
ExampleLayout ==
  /\ Len(columns) = 10
  /\ \A c \in DOMAIN columns :
       /\ columns[c].left = 10 * (c - 1)
       /\ Height(columns[c]) = 100
       /\ Len(columns[c].planks) = 2
       /\ columns[c].planks[1].length = 60
       /\ columns[c].planks[1].cut_end = ""
       /\ columns[c].planks[2].length = 40
       /\ columns[c].planks[2].cut_end = "<"
  /\ planksNeeded = 20
  /\ cuts = 10

C7_ExampleNoWaste ==
  (Idle /\ NumPermanent = 0) => (ExampleLayout /\ waste = 0)

\* C7 (amended): the same layout and counters, with waste = 200: the rest of
\* each cut plank is 20 = MIN_PLANK_LENGTH, which is wasted.
C7_ExampleWaste ==
  (Idle /\ NumPermanent = 0) => (ExampleLayout /\ waste = 200)

\* C7 witness: the example room laid out, no pre-cut plank in it
C7_Witness ==
  Idle /\ NumPermanent = 0 /\ Len(columns) = 10 /\ partials = <<>>

\* the uids of the permanent planks in the pool and in the columns
PermanentUids ==
  { partials[k].uid : k \in { j \in DOMAIN partials : partials[j].permanent } }
    \cup { Placed[k].uid : k \in { j \in DOMAIN Placed : Placed[j].permanent } }

\* C8 (as claimed): no step of recomputeFloor loses a permanent plank: each
\* one in the pool or in a column before is in the pool or in a column after.
C8_PermanentSurvive ==
  [][ (pc = "loop" \/ pc' = "loop") => PermanentUids \subseteq PermanentUids'
    ]_vars

\* a plank without its uid
NoUid(p) ==
  [id |-> p.id, cut_end |-> p.cut_end, left |-> p.left, top |-> p.top,
   width |-> p.width, length |-> p.length, permanent |-> p.permanent]

Layout(cols) ==
  [c \in DOMAIN cols |->
     [cols[c] EXCEPT !.planks = [k \in DOMAIN cols[c].planks |->
                                   NoUid(cols[c].planks[k])]]]

\* recomputeFloor on a room that has no planks at all
FreshRun == RunLoop(RecomputeStart(<<>>, <<>>, 0, leftmost))

\* C9: recomputeFloor starts from nothing but the permanent planks (no
\* column, only permanent partials, planksNeeded = cuts = 0, ids restarted);
\* so with no permanent plank around, the run that follows is the run on a
\* room that never had planks: the same columns, plank ids, planksNeeded and
\* cuts, whatever was laid, left over or shuffled before.
C9_FromScratch ==
  [][ (pc # "loop" /\ (pc' = "loop" \/ (pc' = "idle" /\ columns = <<>>
                                       /\ (UID' # UID \/ NEXT' # NEXT)))) =>
        /\ columns' = <<>>
        /\ planksNeeded' = 0
        /\ cuts' = 0
        /\ \A k \in DOMAIN partials' :
             partials'[k].permanent /\ partials'[k].id = k
        /\ NEXT' = Len(partials') + 1
        /\ partials' = <<>> =>
             LET run == RunLoop(LoopState')
             IN /\ Layout(run.columns) = Layout(FreshRun.columns)
                /\ run.planksNeeded = FreshRun.planksNeeded
                /\ run.cuts = FreshRun.cuts
                /\ Layout(<<[planks |-> run.partials]>>)
                     = Layout(<<[planks |-> FreshRun.partials]>>) ]_vars

\* C9 witness: a run begins on a room whose previous layout had saved
\* partials and was shuffled; nothing of it is left
C9_Witness ==
  /\ pc = "loop"
  /\ columns = <<>>
  /\ partials = <<>>
  /\ UID >= FreshRun.UID
  /\ UID > 0
  /\ Len(FreshRun.columns) = 3
  /\ FreshRun.partials # <<>>

\* C10 (as claimed): a room narrower than one PLANK_WIDTH gets no column.
C10_NarrowEmpty ==
  (Idle /\ rightmost - leftmost < PLANK_WIDTH) => columns = <<>>

\* C10 (amended): the layout has no column exactly when
\* leftmost + START_LEFT >= rightmost; a room narrower than one PLANK_WIDTH
\* but wider than START_LEFT gets one column, at leftmost + START_LEFT.
C10_ColumnsIffRoom ==
  Idle =>
    /\ (columns = <<>>) <=> (leftmost + START_LEFT >= rightmost)
    /\ (rightmost - leftmost < PLANK_WIDTH /\ START_LEFT >= 0
          /\ leftmost + START_LEFT < rightmost) =>
         (Len(columns) = 1 /\ columns[1].left = leftmost + START_LEFT
            /\ columns[1].width = PLANK_WIDTH)

\* C10 witness: a room narrower than a plank, laid out with one column
C10_Witness ==
  /\ Idle
  /\ vertices # <<>>
  /\ rightmost - leftmost < PLANK_WIDTH
  /\ Len(columns) = 1
  /\ columns[1].planks # <<>>

\* a saved room is loaded
LoadStep ==
  /\ pc = "idle"
  /\ \/ pc' = "construct"
     \/ pc' = "idle" /\ UID' # UID /\ columns # <<>>

\* the planks of a list without their uids
NoUids(ps) == [k \in DOMAIN ps |-> NoUid(ps[k])]

\* C11: a room that is saved and loaded again has the same vertices,
\* parameters, hedges, bounding box, columns with the same planks (id,
\* cut_end, left, top, width, length, permanent), the same partials,
\* planksNeeded and cuts; and when the saved room has a column, the load
\* goes on with neither measure nor recomputeFloor.  When it has none, the
\* measure and recomputeFloor that follow give the saved fields again.
C11_RoundTrip ==
  [][ LoadStep =>
        /\ vertices' = vertices
        /\ params' = params
        /\ hedges' = hedges
        /\ <<leftmost', rightmost', topmost', bottommost'>>
             = <<leftmost, rightmost, topmost, bottommost>>
        /\ Layout(columns') = Layout(columns)
        /\ NoUids(partials') = NoUids(partials)
        /\ planksNeeded' = planksNeeded
        /\ cuts' = cuts
        /\ columns # <<>> => pc' = "idle"
        /\ pc' = "construct" =>
             LET m == measure(vertices')
                 run == RunLoop(RecomputeStart(partials', columns', UID',
                                               m.leftmost))
             IN /\ m.hedges = hedges
                /\ <<m.leftmost, m.rightmost, m.topmost, m.bottommost>>
                     = <<leftmost, rightmost, topmost, bottommost>>
                /\ Layout(run.columns) = Layout(columns)
                /\ NoUids(run.partials) = NoUids(partials)
                /\ run.planksNeeded = planksNeeded
                /\ run.cuts = cuts ]_vars

\* C11 witness: a loaded room; only a load gives a permanent plank a uid
\* above that of a plank laid by recomputeFloor
C11_Witness ==
  /\ Idle
  /\ Len(columns) >= 2
  /\ cuts > 0
  /\ partials # <<>>
  /\ \E k \in DOMAIN partials, j \in DOMAIN Placed :
       /\ partials[k].permanent
       /\ ~Placed[j].permanent
       /\ partials[k].uid > Placed[j].uid

\* the vertex after vertex i, wrapping
NextVertex(i) == vertices[(i % Len(vertices)) + 1]

\* the vertices followed by a vertex of the same y
Horizontal == { i \in DOMAIN vertices : vertices[i].y = NextVertex(i).y }

\* the k-th of them
HorizontalAt(k) ==
  CHOOSE i \in Horizontal : Cardinality({ j \in Horizontal : j < i }) = k - 1

\* C12: measure gives one edge for each pair of consecutive vertices
\* (wrapping) of equal y, in vertex order, with left the smaller x, right
\* the greater x and y the common y, so left <= right; the bounding box is the
\* least and greatest x and y of the vertices and contains each of them.
\* Without vertices it stays at the sentinels.
C12_Measure ==
  pc # "construct" =>
    /\ Len(hedges) = Cardinality(Horizontal)
    /\ \A k \in DOMAIN hedges :
         LET p1 == vertices[HorizontalAt(k)]
             p2 == NextVertex(HorizontalAt(k))
         IN /\ hedges[k].y = p1.y
            /\ hedges[k].left <= hedges[k].right
            /\ {hedges[k].left, hedges[k].right} = {p1.x, p2.x}
    /\ \A i \in DOMAIN vertices :
         /\ leftmost <= vertices[i].x /\ vertices[i].x <= rightmost
         /\ topmost <= vertices[i].y /\ vertices[i].y <= bottommost
    /\ vertices # <<>> =>
         /\ \E i \in DOMAIN vertices : vertices[i].x = leftmost
         /\ \E i \in DOMAIN vertices : vertices[i].x = rightmost
         /\ \E i \in DOMAIN vertices : vertices[i].y = topmost
         /\ \E i \in DOMAIN vertices : vertices[i].y = bottommost
    /\ vertices = <<>> =>
         /\ leftmost = MAX_SAFE_INTEGER /\ rightmost = MIN_SAFE_INTEGER
         /\ topmost = MAX_SAFE_INTEGER /\ bottommost = MIN_SAFE_INTEGER

\* C12 witness: a measured room of four vertices with an edge that runs
\* right to left, an edge that runs left to right and two vertical sides
C12_Witness ==
  /\ pc # "construct"
  /\ Len(vertices) = MaxVertices
  /\ Len(hedges) = 2
  /\ \E i \in Horizontal : vertices[i].x > NextVertex(i).x
  /\ \E i \in Horizontal : vertices[i].x < NextVertex(i).x
  /\ vertices[1].x # leftmost
  /\ rightmost - leftmost = 20

\* a step of shuffle
ShuffleStep ==
  /\ pc = "idle" /\ pc' = "idle"
  /\ UID' = UID /\ partials' = partials
  /\ columns # <<>>

\* the ids of a list of planks
Ids(ps) == { ps[k].id : k \in DOMAIN ps }

\* C13: after shuffle the ids of the placed planks are 1..N, N the number
\* of different ids placed; read column by column from the left and from
\* the top down, each id seen for the first time is the next number; and two
\* placed planks have the same id after shuffle exactly when they had the
\* same id before it.
C13_Renumbered ==
  [][ ShuffleStep =>
        LET before == Placed
            after == PlacedPlanks(columns', 1)
        IN /\ Ids(after) = 1..Cardinality(Ids(after))
           /\ \A j \in DOMAIN after :
                after[j].id <= Cardinality(Ids(SubSeq(after, 1, j - 1))) + 1
           /\ Cardinality(Ids(after)) = Cardinality(Ids(before))
           /\ Len(after) = Len(before)
           /\ LET same == { pr \in (DOMAIN before) \X (DOMAIN after) :
                              before[pr[1]].uid = after[pr[2]].uid }
                  renamed == { <<before[pr[1]].id, after[pr[2]].id>> :
                                 pr \in same }
              IN /\ \A i \in DOMAIN before :
                      \E a \in DOMAIN after : after[a].uid = before[i].uid
                 /\ \A p, q \in renamed : (p[1] = q[1]) <=> (p[2] = q[2]) ]_vars

\* C13 witness: a shuffled and renumbered layout: the rest of a cut plank
\* stands left of the piece cut from it, which only a shuffle brings about,
\* and the two share an id
C13_Witness ==
  /\ Idle
  /\ Len(columns) >= 3
  /\ \E i, j \in DOMAIN Placed :
       /\ i < j
       /\ Placed[i].id = Placed[j].id
       /\ Placed[i].cut_end = ">" /\ Placed[j].cut_end = "<"
       /\ Placed[i].left < Placed[j].left
       /\ ~Placed[i].permanent /\ ~Placed[j].permanent
  /\ \E k \in DOMAIN partials : partials[k].id > Cardinality(Ids(Placed))

\* the heights of the columns, by left edge
HeightAt(cols) == { <<cols[c].left, Height(cols[c])>> : c \in DOMAIN cols }

\* lengths and cut ends of the planks, by uid
Pieces(cols) ==
  LET ps == PlacedPlanks(cols, 1)
  IN { <<ps[k].uid, ps[k].length, ps[k].cut_end>> : k \in DOMAIN ps }

\* C14: shuffle only moves columns between the x positions of columns of
\* the same height.  After it the columns are in ascending order of left, the
\* left values are those of before, the column at each left is as high as
\* the one that stood there, every plank has the left of its column, and
\* planksNeeded, cuts, waste, the number of planks and each plank's length and
\* cut end are as before.  As it holds for every shuffle step, it holds
\* after any number of them.
C14_ShuffleFrame ==
  [][ ShuffleStep =>
        /\ Len(columns') = Len(columns)
        /\ \A c \in 1..(Len(columns') - 1) :
             columns'[c].left < columns'[c + 1].left
        /\ HeightAt(columns') = HeightAt(columns)
        /\ \A c \in DOMAIN columns' : \A k \in DOMAIN columns'[c].planks :
             columns'[c].planks[k].left = columns'[c].left
        /\ planksNeeded' = planksNeeded
        /\ cuts' = cuts
        /\ waste' = waste
        /\ Len(PlacedPlanks(columns', 1)) = Len(Placed)
        /\ Pieces(columns') = Pieces(columns)
        /\ partials' = partials ]_vars

\* C14 witness: a shuffled layout in which a column stands with its planks
\* where another stood: the plank that recomputeFloor laid first is no
\* longer in the first column
C14_Witness ==
  /\ Idle
  /\ Len(columns) >= 3
  /\ START_TOP = 0
  /\ \E c \in 2..Len(columns) : \E k \in DOMAIN columns[c].planks :
       /\ \A j \in DOMAIN Placed : columns[c].planks[k].uid <= Placed[j].uid
       /\ ~columns[c].planks[k].permanent
       /\ columns[c].planks[k].left = columns[c].left
       /\ columns[c].planks[k].left > columns[1].left
  /\ \A c \in DOMAIN columns : columns[c].planks # <<>>

\* where the planks of a column are
Positions(col) ==
  [k \in DOMAIN col.planks |->
     [uid |-> col.planks[k].uid, left |-> col.planks[k].left,
      top |-> col.planks[k].top, length |-> col.planks[k].length]]

\* C15: with START_TOP non-zero shuffle leaves the first column alone: it
\* keeps its left, extent and planks where they are and is still the leftmost
\* column.  As it holds for every shuffle step, it holds after any number of
\* them.
C15_FirstColumnPinned ==
  [][ (ShuffleStep /\ START_TOP # 0) =>
        /\ columns'[1].left = columns[1].left
        /\ columns'[1].top = columns[1].top
        /\ columns'[1].bottom = columns[1].bottom
        /\ Positions(columns'[1]) = Positions(columns[1])
        /\ \A c \in 2..Len(columns') :
             columns'[1].left < columns'[c].left ]_vars

\* C15 witness: START_TOP is set and a shuffle has moved the other columns:
\* right of the first column the rest of a plank stands left of the piece
\* that was cut from it, which recomputeFloor never does
C15_Witness ==
  /\ Idle
  /\ START_TOP # 0
  /\ columns # <<>>
  /\ columns[1].planks # <<>>
  /\ \E c, d \in 2..Len(columns) :
       /\ c < d
       /\ \E i \in DOMAIN columns[c].planks, j \in DOMAIN columns[d].planks :
            /\ columns[c].planks[i].id = columns[d].planks[j].id
            /\ columns[c].planks[i].cut_end = ">"
            /\ columns[d].planks[j].cut_end = "<"
            /\ ~columns[c].planks[i].permanent
            /\ ~columns[d].planks[j].permanent

\* C16 (as claimed): the cutting schedule has an entry for exactly the ids
\* of the placed planks with a cut end, and each entry gives the lengths of
\* both pieces of the plank, the "<" piece and the ">" piece.
C16_BothPieces ==
  Idle =>
    /\ DOMAIN cuttingSchedule
         = { Placed[k].id : k \in { j \in DOMAIN Placed :
                                      Placed[j].cut_end # "" } }
    /\ \A id \in DOMAIN cuttingSchedule :
         /\ cuttingSchedule[id]["<"] # Undefined
         /\ cuttingSchedule[id][">"] # Undefined

\* C17 (as claimed): a vertex list that is too short to make a room (fewer
\* than three vertices, or none at all) is refused before any layout: no
\* hedge, bounding box or column is ever computed from it.
C17_ShortListRefused ==
  Len(vertices) < 3 =>
    /\ hedges = <<>>
    /\ columns = <<>>
    /\ leftmost = MAX_SAFE_INTEGER /\ rightmost = MIN_SAFE_INTEGER
    /\ topmost = MAX_SAFE_INTEGER /\ bottommost = MIN_SAFE_INTEGER

\* the lengths of the planks of a column, summed
Filled(col) == SeqSum([k \in DOMAIN col.planks |-> col.planks[k].length])

\* C18 (as claimed): in the finished layout the planks of the first column
\* start START_TOP below its top and fill its height less START_TOP; the
\* planks of every other column start at the top of the column.
C18_FirstColumnOffset ==
  Idle =>
    \A c \in DOMAIN columns :
      columns[c].planks # <<>> =>
        IF c = 1
        THEN /\ columns[c].planks[1].top = columns[c].top + START_TOP
             /\ Filled(columns[c]) = Height(columns[c]) - START_TOP
        ELSE columns[c].planks[1].top = columns[c].top

\* the edge lies over the open span of the column
Overlaps(hedge, col) ==
  hedge.left < ColRight(col) /\ hedge.right > col.left

\* the levels of the edges over the column
Levels(col) ==
  { hedges[k].y : k \in { j \in DOMAIN hedges : Overlaps(hedges[j], col) } }

\* C19: a column clipped against all edges has for top the least and for
\* bottom the greatest y of just the edges that lie over its open span
\* (edge.left < column.right and edge.right > column.left), and keeps the
\* sentinels when there is no such edge; a single edge clips a new column
\* exactly when it lies over that span, so an edge that only touches a side
\* of the column or lies outside does nothing.
C19_ClipOverlap ==
  \A c \in DOMAIN columns :
    LET col == columns[c]
        new == Column(col.left, col.width)
    IN /\ \A k \in DOMAIN hedges :
            (clip(new, hedges[k]) # new) <=> Overlaps(hedges[k], col)
       /\ \A k \in DOMAIN hedges :
            clip(new, hedges[k]) # new =>
              /\ clip(new, hedges[k]).top = hedges[k].y
              /\ clip(new, hedges[k]).bottom = hedges[k].y
       /\ IF Levels(col) = {}
          THEN col.top = MAX_SAFE_INTEGER /\ col.bottom = MIN_SAFE_INTEGER
          ELSE /\ col.top \in Levels(col)
               /\ col.bottom \in Levels(col)
               /\ \A y \in Levels(col) : col.top <= y /\ y <= col.bottom

\* C19 witness: a column clipped by an edge that lies strictly inside it,
\* while an edge at another level that ends on its left side does not count
C19_Witness ==
  \E c \in DOMAIN columns :
    LET col == columns[c]
    IN /\ \E k \in DOMAIN hedges :
            /\ hedges[k].left > col.left
            /\ hedges[k].right < ColRight(col)
            /\ hedges[k].left < hedges[k].right
            /\ hedges[k].y = col.top
       /\ \E k \in DOMAIN hedges :
            /\ hedges[k].right = col.left
            /\ hedges[k].left < hedges[k].right
            /\ hedges[k].y # col.top /\ hedges[k].y # col.bottom

\* C20: selectPartial(cut_end, min_length) returns, and takes out of the
\* pool, a partial with that cut end and a length above min_length, the
\* longest of them and of the longest the first in the pool; the other
\* partials stay, in their order.  When no partial has that cut end and a
\* length above min_length it returns undefined and the pool stays as it is.
C20_SelectPartial ==
  [][ \A cut_end \in CutEnds, min_length \in MinLengths :
        SelectPartial(cut_end, min_length) =>
          LET match == { k \in DOMAIN partials :
                           /\ partials[k].cut_end = cut_end
                           /\ partials[k].length > min_length }
              best == selectPartial(partials, cut_end, min_length)
          IN IF match = {}
             THEN best = 0 /\ partials' = partials
             ELSE /\ best \in match
                  /\ \A k \in match : partials[k].length <= partials[best].length
                  /\ \A k \in match :
                       k < best => partials[k].length < partials[best].length
                  /\ Len(partials') = Len(partials) - 1
                  /\ \A k \in DOMAIN partials' :
                       partials'[k] = IF k < best THEN partials[k]
                                      ELSE partials[k + 1] ]_vars

\* C20 witness: the second of three pooled planks was selected and the
\* other two are left in their order; the plank before it has the same cut
\* end as the plank after it and is shorter
C20_Witness ==
  /\ Idle
  /\ vertices = <<>>
  /\ Len(partials) = 2
  /\ partials[1].id = 1 /\ partials[2].id = 3
  /\ partials[1].cut_end = partials[2].cut_end
  /\ partials[1].length < partials[2].length

\* a column is tried again, after an attempt that began with a partial
Retried == pc = "loop" /\ ~pickPartial

\* the column that a step of the loop has added
NewColumn == columns'[Len(columns')]

RetryStep == pc = "loop" /\ pc' = "loop" /\ l' = l

\* a plank of the pool, wherever it was last laid
Unplaced(p) ==
  [uid |-> p.uid, id |-> p.id, cut_end |-> p.cut_end, width |-> p.width,
   length |-> p.length, permanent |-> p.permanent]

\* how often each plank is in the pool
PoolBag(ps) ==
  [x \in { Unplaced(ps[k]) : k \in DOMAIN ps } |->
     Cardinality({ k \in DOMAIN ps : Unplaced(ps[k]) = x })]

\* what an attempt at the column at l leaves to be cut, when it begins with
\* the partial of length start (0 for none)
Remainder(start) ==
  LET col == ClipAll(Column(l, PLANK_WIDTH), hedges, 1)
      h == Height(col) - first_offset - start
  IN IF h > PLANK_LENGTH THEN ((h - 1) % PLANK_LENGTH) + 1 ELSE h

\* C22: an attempt at a column is given up exactly when it began with a
\* partial and leaves 0 < h < MIN_PLANK_LENGTH.  Then the partial is back in
\* the pool, which holds the planks it held before the attempt, no column is
\* added, planksNeeded and cuts are as before, and the same x is tried again
\* without a partial; that second attempt is kept, and the column after it
\* may begin with a partial again.
C22_RetryFrame ==
  [][ /\ (pc = "loop" /\ pickPartial) =>
           LET sel == selectPartial(partials, ">", 0)
           IN RetryStep <=>
                /\ sel # 0
                /\ 0 < Remainder(partials[sel].length)
                /\ Remainder(partials[sel].length) < MIN_PLANK_LENGTH
      /\ RetryStep =>
           /\ pickPartial /\ ~pickPartial'
           /\ columns' = columns
           /\ planksNeeded' = planksNeeded
           /\ cuts' = cuts
           /\ PoolBag(partials') = PoolBag(partials)
           /\ Unplaced(Last(partials'))
                = Unplaced(partials[selectPartial(partials, ">", 0)])
      /\ Retried =>
           /\ ~RetryStep
           /\ Len(columns') = Len(columns) + 1
           /\ NewColumn.left = l
           /\ l' = l + PLANK_WIDTH
           /\ pickPartial' ]_vars

\* C22 witness: an attempt at a column other than the first has just been
\* given up: the partial it began with is last in the pool, at the x of the
\* column to be tried again, and ids were used up by the planks given up
C22_Witness ==
  /\ pc = "loop"
  /\ ~pickPartial
  /\ columns # <<>>
  /\ partials # <<>>
  /\ Last(partials).cut_end = ">"
  /\ Last(partials).left = l
  /\ NEXT > Len(Placed) + Len(partials) + 1

\* a run of recomputeFloor comes to its end
RunEnds == pc # "idle" /\ pc' = "idle"

\* the planks of the layout that the run has made: permanent planks and the
\* rests of planks cut in this run were taken from the pool
NewlyTaken(ps) == SelectSeq(ps, LAMBDA p : ~p.permanent /\ p.cut_end # ">")

\* C23: at the end of recomputeFloor planksNeeded is the number of placed
\* planks that the run took new, whole planks and planks cut at the bottom,
\* without the partials laid; cuts is the number of planks cut at the bottom,
\* of which a column has at most one, so that cuts is at most the number of
\* columns.
C23_Counters ==
  [][ RunEnds =>
        LET ps == PlacedPlanks(columns', 1)
        IN /\ planksNeeded' = Len(NewlyTaken(ps))
           /\ cuts' = Len(SelectSeq(ps, LAMBDA p : p.cut_end = "<"
                                                    /\ ~p.permanent))
           /\ \A c \in DOMAIN columns' :
                Len(SelectSeq(columns'[c].planks,
                              LAMBDA p : p.cut_end = "<" /\ ~p.permanent)) <= 1
           /\ cuts' <= Len(columns') ]_vars

\* C23 witness: a finished layout of three columns or more in which a rest
\* of a plank cut in this run and a permanent plank were laid, neither of
\* which was counted
C23_Witness ==
  /\ Idle
  /\ Len(columns) >= 3
  /\ \E k \in DOMAIN Placed : Placed[k].permanent
  /\ \E k \in DOMAIN Placed : ~Placed[k].permanent /\ Placed[k].cut_end = ">"
  /\ planksNeeded < Len(Placed) - 1
  /\ cuts >= 2
  /\ cuts < Len(columns)

\* one iteration of the column loop without the probe for a bottom-cut
\* partial: selectPartial(">") passes over the '<' planks of the pool, so
\* that without the probe they lie untouched; the iteration is run on the
\* pool without them and they are put behind what it leaves
NoProbeIter(st) ==
  LET r == ColumnIter([st EXCEPT !.partials =
                         SelectSeq(st.partials, LAMBDA p : p.cut_end # "<")])
  IN [r EXCEPT !.partials =
        r.partials \o SelectSeq(st.partials, LAMBDA p : p.cut_end = "<")]

RECURSIVE RunNoProbe(_)
RunNoProbe(st) == IF st.l < rightmost THEN RunNoProbe(NoProbeIter(st)) ELSE st

\* C24 (as claimed): from every state of the column loop the run ends with
\* the same columns, planksNeeded, cuts and pool (as a multiset) as the run
\* without the probe for a bottom-cut partial.
C24_ProbeNoEffect ==
  pc = "loop" =>
    LET with == RunLoop(LoopState)
        without == RunNoProbe(LoopState)
    IN /\ with.columns = without.columns
       /\ with.planksNeeded = without.planksNeeded
       /\ with.cuts = without.cuts
       /\ PoolBag(with.partials) = PoolBag(without.partials)

\* C25: no plank in a column or in the pool has a length of 0 or less: a
\* whole plank has length PLANK_LENGTH, a plank cut at the bottom a length
\* in 1..PLANK_LENGTH, a rest that was saved a length in 1..PLANK_LENGTH-1;
\* a column whose top lies below its bottom gets no new plank at all.
C25_PositiveLengths ==
  /\ \A k \in DOMAIN Placed :
       LET p == Placed[k]
       IN /\ p.length > 0
          /\ p.cut_end = "" => p.length = PLANK_LENGTH
          /\ p.cut_end = "<" => p.length <= PLANK_LENGTH
          /\ (p.cut_end = ">" /\ ~p.permanent) => p.length < PLANK_LENGTH
  /\ \A k \in DOMAIN partials :
       /\ partials[k].length > 0
       /\ ~partials[k].permanent =>
            partials[k].cut_end = ">" /\ partials[k].length < PLANK_LENGTH
  /\ \A c \in DOMAIN columns :
       Height(columns[c]) <= 0 =>
         \A k \in DOMAIN columns[c].planks : columns[c].planks[k].cut_end = ">"

\* C25 witness: a finished layout with a column whose top lies below its
\* bottom, a plank cut to the full length, and a saved rest in the pool
C25_Witness ==
  /\ Idle
  /\ \E c \in DOMAIN columns : columns[c].top > columns[c].bottom
  /\ \E k \in DOMAIN Placed :
       Placed[k].cut_end = "<" /\ Placed[k].length = PLANK_LENGTH
  /\ \E k \in DOMAIN partials : ~partials[k].permanent

----------------------------------------------------------------------------
(* recomputeFloor is one synchronous call: once its column loop has begun, *)
(* the passes follow each other without anything in between. This is weak  *)
(* fairness of ColumnStep, WF_vars(ColumnStep), written with the state      *)
(* predicate that ENABLED <<ColumnStep>>_vars comes to: a pass can be made  *)
(* exactly when pc = "loop", and every pass changes columns or pickPartial. *)

LoopRuns == []<>(pc # "loop") \/ []<><<ColumnStep>>_vars

SpecRun == Spec /\ LoopRuns

\* the lefts of the columns: leftmost + START_LEFT + i * PLANK_WIDTH for
\* i = 0, 1, ... as long as the left is less than rightmost
Marched(cols) ==
  /\ \A i \in DOMAIN cols :
       /\ cols[i].left = leftmost + START_LEFT + (i - 1) * PLANK_WIDTH
       /\ cols[i].left < rightmost
       /\ cols[i].width = PLANK_WIDTH
  /\ leftmost + START_LEFT + Len(cols) * PLANK_WIDTH >= rightmost

\* C26: recomputeFloor comes to its end; a pass that gives its column up is
\* followed, at the same left, by a pass that keeps its column, and every
\* other pass keeps its column and goes on by PLANK_WIDTH; at the end there
\* is one column for each left = leftmost + START_LEFT + i * PLANK_WIDTH
\* less than rightmost, in ascending order, each of width PLANK_WIDTH.
C26_Terminates ==
  /\ (pc = "loop") ~> (pc = "idle")
  /\ [][ /\ RetryStep => pickPartial /\ ~pickPartial'
         /\ (pc = "loop" /\ ~RetryStep) =>
               /\ l' = l + PLANK_WIDTH
               /\ Len(columns') = Len(columns) + 1
               /\ NewColumn.left = l
         /\ RunEnds => Marched(columns') ]_vars

\* C26 witness: a finished layout of four columns, one of which was tried
\* twice: its first plank is whole, and the partial that the first attempt
\* had laid at its left is back in the pool
C26_Witness ==
  /\ Idle
  /\ Len(columns) = 4
  /\ Marched(columns)
  /\ \E c \in DOMAIN columns :
       /\ columns[c].planks # <<>>
       /\ columns[c].planks[1].cut_end = ""
       /\ \E k \in DOMAIN partials :
            /\ partials[k].cut_end = ">"
            /\ partials[k].left = columns[c].left
            /\ partials[k].top = columns[c].top + (IF c = 1 THEN START_TOP
                                                   ELSE 0)

\* the planks of column c of cols lie end to end from the column's top
\* (START_TOP below it in the first column) to its bottom
Tiled(cols, c) ==
  LET col == cols[c]
      n == Len(col.planks)
      start == col.top + (IF c = 1 THEN START_TOP ELSE 0)
  IN /\ n > 0 => col.planks[1].top = start
     /\ \A k \in 2..n : col.planks[k].top = PlankBottom(col.planks[k - 1])
     /\ n > 0 => PlankBottom(col.planks[n]) = col.bottom
     /\ n = 0 => start >= col.bottom
     /\ \A k \in 1..n : /\ col.planks[k].top >= col.top
                        /\ PlankBottom(col.planks[k]) <= col.bottom

\* C27 (as claimed): at the end of recomputeFloor the planks of every column
\* tile it: the first at the column's top (START_TOP below it in the first
\* column), each next one where the one before ends, the last one ending at
\* the column's bottom, none of them beyond the column's top or bottom.
C27_Tiling ==
  [][ RunEnds => \A c \in DOMAIN columns' : Tiled(columns', c) ]_vars

----------------------------------------------------------------------------
(* shuffle in a room whose columns are equally high without standing at    *)
(* the same height: the right half of the room lies 20 lower than the left *)

StaggeredRoom ==
  << Vertex(0, 0), Vertex(20, 0), Vertex(20, 20), Vertex(40, 20),
     Vertex(40, 120), Vertex(20, 120), Vertex(20, 100), Vertex(0, 100) >>

ShuffleTemplates ==
  [vertices : {StaggeredRoom},
   PLANK_WIDTH : {10}, PLANK_LENGTH : {60},
   CUT_THICKNESS : CutThicknesses,
   MIN_PLANK_LENGTH : MinPlankLengths,
   START_LEFT : {0, 5},
   START_TOP : StartTops,
   partials : {<<>>}]

InitShuffle == \E template \in ShuffleTemplates : ConstructorFields(template)

NextShuffle == Construct \/ ColumnStep \/ Shuffle

SpecShuffle == InitShuffle /\ [][NextShuffle]_vars

\* every column of cols has the top and bottom that the horizontal edges
\* give a column at its left, and its planks lie between them
InsideRoom(cols) ==
  \A c \in DOMAIN cols :
    LET extent == ClipAll(Column(cols[c].left, cols[c].width), hedges, 1)
    IN /\ cols[c].top = extent.top
       /\ cols[c].bottom = extent.bottom
       /\ \A k \in DOMAIN cols[c].planks :
            /\ cols[c].planks[k].top >= extent.top
            /\ PlankBottom(cols[c].planks[k]) <= extent.bottom

\* C28 (as claimed): shuffle keeps the planks inside the room: when every
\* column has the extent of its left and holds its planks inside it before
\* the shuffle, the same is true of the columns after it.
C28_ShuffleInside ==
  [][ (ShuffleStep /\ InsideRoom(columns)) => InsideRoom(columns') ]_vars

\* C29 (as claimed): at the end of recomputeFloor waste is not negative.
C29_WasteNotNegative == [][ RunEnds => waste' >= 0 ]_vars

----------------------------------------------------------------------------
(* Room.removePartial and Room.clearPartials, called from the remove       *)
(* button of a plank in the partials list and from #clear_partials; the    *)
(* layout is not computed again after either.                               *)

\* mutant: the first plank is taken, whatever its uid
M_FirstWithUid(ps, uid) == IF ps # <<>> THEN 1 ELSE 0

\* index of the first plank of ps with this uid, 0 when there is none
FirstWithUid(ps, uid) ==
  IF \E k \in DOMAIN ps : ps[k].uid = uid
  THEN CHOOSE k \in DOMAIN ps :
         /\ ps[k].uid = uid
         /\ \A j \in 1..(k - 1) : ps[j].uid # uid
  ELSE 0

\* the loop over the columns: the first plank with this uid is spliced out
\* and the search ends
RemoveFromColumns(cols, uid, found) ==
  [c \in DOMAIN cols |->
     LET i == FirstWithUid(cols[c].planks, uid)
         earlier == \E b \in 1..(c - 1) : FirstWithUid(cols[b].planks, uid) # 0
     IN IF found \/ earlier \/ i = 0 THEN cols[c]
        ELSE [cols[c] EXCEPT !.planks = Splice(cols[c].planks, i)]]

\* the uids of the remove buttons that Room.draw has made: one for each
\* plank of the pool and for each permanent plank of a column
Removable ==
  { partials[k].uid : k \in DOMAIN partials }
    \cup { Placed[k].uid : k \in { j \in DOMAIN Placed : Placed[j].permanent } }

RemovePartial(uid) ==
  /\ pc = "idle"
  /\ LET i == FirstWithUid(partials, uid)
     IN /\ partials' = IF i # 0 THEN Splice(partials, i) ELSE partials
        /\ columns' = RemoveFromColumns(columns, uid, i # 0)
  /\ UNCHANGED <<geometry, params, planksNeeded, cuts, NEXT, UID, pc, l,
                 first_offset, pickPartial>>

ClearPartials ==
  /\ pc = "idle"
  /\ partials' = <<>>
  /\ columns' = [c \in DOMAIN columns |->
                   [columns[c] EXCEPT !.planks =
                      SelectSeq(columns[c].planks,
                                LAMBDA plank : ~plank.permanent)]]
  /\ UNCHANGED <<geometry, params, planksNeeded, cuts, NEXT, UID, pc, l,
                 first_offset, pickPartial>>

PoolTemplates ==
  [vertices : {RectRoom(30, 100), RectRoom(5, 100), LRoom},
   PLANK_WIDTH : {10}, PLANK_LENGTH : {60},
   CUT_THICKNESS : {0},
   MIN_PLANK_LENGTH : MinPlankLengths,
   START_LEFT : {0},
   START_TOP : StartTops,
   partials : {<<>>}]

InitPool == \E template \in PoolTemplates : ConstructorFields(template)

NextPool ==
  \/ Construct
  \/ ColumnStep
  \/ TryAgain
  \/ \E length \in PartialLengths, cut_end \in CutEnds :
       SubmitPartial(length, cut_end)
  \/ Shuffle
  \/ \E uid \in Removable : RemovePartial(uid)
  \/ ClearPartials

SpecPool == InitPool /\ [][NextPool]_vars

\* the planks of the room: those of the pool and those of the columns
AllPlanks == partials \o Placed

\* C30: every plank is in one place, once in the pool or once in one column:
\* no two places of the room hold planks with the same uid; the plank that
\* removePartial is called for is nowhere afterwards and every other plank
\* is where it was; after clearPartials the pool is empty and no permanent
\* plank is left in a column.
C30_OnePlace ==
  /\ [](\A i, j \in DOMAIN AllPlanks : AllPlanks[i].uid = AllPlanks[j].uid
                                         => i = j)
  /\ [][ \A uid \in Removable :
           RemovePartial(uid) =>
             /\ \A k \in DOMAIN AllPlanks' : AllPlanks'[k].uid # uid
             /\ AllPlanks' = SelectSeq(AllPlanks, LAMBDA p : p.uid # uid) ]_vars
  /\ [][ ClearPartials =>
           /\ partials' = <<>>
           /\ PlacedPlanks(columns', 1)
                = SelectSeq(Placed, LAMBDA p : ~p.permanent) ]_vars

\* C30 witness: a layout that was computed after a plank had been removed,
\* in which a permanent plank lies in a column and another one in the pool,
\* with a rest of a cut plank beside it
C30_Witness ==
  /\ Idle
  /\ \E k \in DOMAIN Placed : Placed[k].permanent
  /\ \E k \in DOMAIN partials : partials[k].permanent
  /\ \E k \in DOMAIN partials : ~partials[k].permanent
  /\ \E uid \in 0..(UID - 1) :
       /\ \A k \in DOMAIN AllPlanks : AllPlanks[k].uid # uid
       /\ \E k \in DOMAIN AllPlanks : AllPlanks[k].uid > uid

====
